---- MODULE Spec2Model ----
(***************************************************************************)
(* Lettercrap (src/src/lettercrap.ts): the global settings store, the     *)
(* parameter validators and the surface lifecycle (initElement,           *)
(* resetElement, the batch variants, refresh, the render closure with its  *)
(* interval timer and ResizeObserver) as a state machine, and one render   *)
(* closure with the text it threads through getTextContentWithImageAtSize, *)
(* composed one canvas cell at a time from the Math.random() results.      *)
(*                                                                         *)
(* Strings that the code trims, splits or parses are sequences of          *)
(* one-character strings.  An optional value (null / undefined) is a       *)
(* sequence of length 0 or 1.  A JavaScript number is a record             *)
(* [k |-> "int" | "nan" | "inf", v |-> Int].                               *)
(***************************************************************************)
EXTENDS Integers, Sequences, FiniteSets, Bags, TLC

\* ------------------------------------------------------------- bounds
MaxCalls == 3

MaxFrames == 2

MaxBatches == 2

MaxKeys == 2

\* ------------------------------------------------------------ strings
Null == <<>>

Some(v) == <<v>>

\* the white space String.prototype.trim removes
IsWhitespace(ch) == ch \in {" ", "\n", "\r", "\t"}

RECURSIVE TrimStart(_)
TrimStart(s) ==
  IF s # <<>> /\ IsWhitespace(Head(s)) THEN TrimStart(Tail(s)) ELSE s

RECURSIVE TrimEnd(_)
TrimEnd(s) ==
  IF s # <<>> /\ IsWhitespace(s[Len(s)]) THEN TrimEnd(SubSeq(s, 1, Len(s) - 1)) ELSE s

Trim(s) == TrimEnd(TrimStart(s))

\* String.prototype.split(' '): the pieces between single spaces.
RECURSIVE SplitFrom(_, _, _)
SplitFrom(s, cur, acc) ==
  IF s = <<>> THEN Append(acc, cur)
  ELSE IF Head(s) = " " THEN SplitFrom(Tail(s), <<>>, Append(acc, cur))
  ELSE SplitFrom(Tail(s), Append(cur, Head(s)), acc)

Split(s) == SplitFrom(s, <<>>, <<>>)

\* ------------------------------------------------------------ numbers
Num(n) == [k |-> "int", v |-> n]

NaN == [k |-> "nan", v |-> 0]

Infinity == [k |-> "inf", v |-> 0]

Digits == <<"0", "1", "2", "3", "4", "5", "6", "7", "8", "9">>

IsDigit(ch) == \E d \in 1..10 : Digits[d] = ch

DigitVal(ch) == (CHOOSE d \in 1..10 : Digits[d] = ch) - 1

RECURSIVE DigitsOf(_)
DigitsOf(n) == IF n < 10 THEN <<Digits[n + 1]>> ELSE Append(DigitsOf(n \div 10), Digits[(n % 10) + 1])

\* Number.prototype.toString
NumberToString(x) ==
  CASE x.k = "nan" -> <<"N", "a", "N">>
    [] x.k = "inf" -> <<"I", "n", "f", "i", "n", "i", "t", "y">>
    [] OTHER -> IF x.v < 0 THEN <<"-">> \o DigitsOf(0 - x.v) ELSE DigitsOf(x.v)

RECURSIVE ParseDigits(_, _, _)
ParseDigits(s, acc, seen) ==
  IF s # <<>> /\ IsDigit(Head(s)) THEN ParseDigits(Tail(s), acc * 10 + DigitVal(Head(s)), TRUE)
  ELSE [seen |-> seen, v |-> acc]

\* parseInt(string): leading whitespace, an optional sign, then the longest
\* run of decimal digits; NaN when there is none.
ParseInt(s) ==
  LET t == TrimStart(s)
      neg == t # <<>> /\ Head(t) = "-"
      body == IF t # <<>> /\ Head(t) \in {"-", "+"} THEN Tail(t) ELSE t
      r == ParseDigits(body, 0, FALSE)
  IN IF r.seen THEN Num(IF neg THEN 0 - r.v ELSE r.v) ELSE NaN

\* --------------------------------------------------------- validators
isStringNonBlank(str) == Len(Trim(str)) > 0

isArrayStringNonBlank(arr) == \A i \in DOMAIN arr : isStringNonBlank(arr[i])

isNumberNonNegative(num) == num.k = "inf" \/ (num.k = "int" /\ num.v >= 0)

isConfigValid(c) ==
  LET validContent == isStringNonBlank(c.content)
      validLetters == isStringNonBlank(c.letters)
      validWords == isArrayStringNonBlank(c.words)
      validUpdateInterval == isNumberNonNegative(c.update_interval)
  IN validContent /\ validLetters /\ validWords /\ validUpdateInterval

fontWeights ==
  {"100", "200", "300", "400", "500", "600", "700", "800", "900",
   "lighter", "normal", "bold", "bolder"}

ConfigKeys == {"content", "letters", "words", "font_family", "font_weight", "update_interval"}

DefaultConfig ==
  [content |-> <<"L", "C">>,
   letters |-> <<"0", "1">>,
   words |-> <<>>,
   font_family |-> <<"m">>,
   font_weight |-> "normal",
   update_interval |-> Num(150)]

VARIABLES
  config,       \* the settings store
  cfgResult     \* how the last configure() ended

\* A partial update: `keys` are the own keys of the object passed in, and each
\* key's value is Null (undefined) or Some(value).
CleanKeys(userConfig) == {key \in userConfig.keys : userConfig.vals[key] # Null}

Preview(cfg, userConfig) ==
  [key \in ConfigKeys |->
     IF key \in CleanKeys(userConfig) THEN userConfig.vals[key][1] ELSE cfg[key]]

\* config[key] = userConfig[key] ?? config[key], for every key of the preview
Assigned(cfg, userConfig) ==
  [key \in ConfigKeys |->
     IF key \in userConfig.keys /\ userConfig.vals[key] # Null
     THEN userConfig.vals[key][1] ELSE cfg[key]]

VARIABLES
  attrs,        \* the data-lettercrap-* attributes of each element
  width,        \* element.clientWidth
  textContent,  \* element.textContent: Null or the frame <<closure id, n>>
  height,       \* element.style.height: Null ('') or Some(pixels)
  instances,    \* the registry: element -> InitializedInstance
  closures,     \* every render() closure: its timer, observer and `text`
  calls,        \* the initElement invocations and their promises, as a bag
  batches,      \* every initElements / init / refresh invocation: its elements
  refreshPc,    \* position of the refresh() in progress
  cancelled     \* elements deactivated with no activation started since

\* One render() closure with the text it threads through
\* getTextContentWithImageAtSize, one cell of the canvas at a time.
VARIABLES
  pc,           \* "off": not rendered; "idle": between callbacks; "loop": composing
  renderText,   \* render's `text`: Null (undefined) or Some(string)
  pending,      \* the ResizeObserver has a size change to deliver
  frames,       \* how many times write() has run
  made,         \* the canvas size `text` was composed for: Null or Some(<<cols, rows>>)
  strippedText, \* `existingText` once its line breaks are removed
  chars,        \* the string being composed
  start_of_filled_in_sequence,  \* Null or Some(cell index)
  cellIndex,    \* `i`: index of the next cell
  column,       \* `_x`: column of the next cell
  image         \* render's `image`, decoded: rows of pixels

frameVars ==
  <<pc, renderText, pending, frames, made, strippedText, chars, start_of_filled_in_sequence,
    cellIndex, column, image>>

vars ==
  <<config, cfgResult, attrs, width, textContent, height, instances, closures,
    calls, batches, refreshPc, cancelled, frameVars>>

Elements == {"e1", "e2"}

\* document order of the elements, as querySelectorAll returns them
ElementOrder == <<"e1", "e2">>

Widths == {60, 120}

\* the decoded image: only its dimensions matter to render()
Image == [width |-> 10, height |-> 20]

DataUrl == <<"d", "a", "t", "a", ":">>

NoAttrs ==
  [src |-> Null, text |-> Null, font_family |-> Null, font_weight |-> Null,
   letters |-> Null, words |-> Null, interval |-> Null, aspect |-> Null]

\* The attribute sets an element may carry.
Profiles ==
  { [NoAttrs EXCEPT !.src = Some(<<"u">>)],
    [NoAttrs EXCEPT !.text = Some(<<"h", "i">>)],
    [NoAttrs EXCEPT !.src = Some(<<"u">>), !.letters = Some(<<" ">>)],
    [NoAttrs EXCEPT !.src = Some(<<"u">>), !.words = Some(<<"a", " ", " ", "b">>)],
    [NoAttrs EXCEPT !.src = Some(<<"u">>), !.interval = Some(<<"x">>), !.aspect = Some(<<"3">>)],
    [NoAttrs EXCEPT !.text = Some(<<" ">>)],
    [NoAttrs EXCEPT !.text = Some(<<"h", "i">>), !.font_weight = Some("heavy")],
    [NoAttrs EXCEPT !.src = Some(<<>>)],
    NoAttrs }

\* The documents the surfaces live in: e1 carries any of the attribute sets and
\* e2 is a bare element (Pages), or e2 is an image surface too (BatchPages).
Page(p, q) == [e \in Elements |-> IF e = "e1" THEN p ELSE q]

Pages == {Page(p, NoAttrs) : p \in Profiles}

BatchPages == {Page(p, [NoAttrs EXCEPT !.src = Some(<<"u">>)]) : p \in Profiles}

\* a ?? b
Coalesce(a, b) == IF a # Null THEN a[1] ELSE b

Range(f) == {f[i] : i \in DOMAIN f}

\* ----------------------------------------------------- the registry (Map)
MapSet(m, key, val) == [x \in (DOMAIN m) \cup {key} |-> IF x = key THEN val ELSE m[x]]

MapDelete(m, key) == [x \in (DOMAIN m) \ {key} |-> m[x]]

\* Array.from(instances.keys())
RECURSIVE FilterSeq(_, _)
FilterSeq(seq, S) ==
  IF seq = <<>> THEN <<>>
  ELSE IF Head(seq) \in S THEN <<Head(seq)>> \o FilterSeq(Tail(seq), S)
  ELSE FilterSeq(Tail(seq), S)

InstanceKeys(inst) == FilterSeq(ElementOrder, DOMAIN inst)

\* ------------------------------------------------------------- render
\* getTextContentWithImageAtSize, seen from the lifecycle: the frame a closure
\* composes from its previous text.  <<id, 1>> is a frame composed from no
\* previous text, <<id, n + 1>> one composed from <<id, n>>.
NextFrame(id, existingText) ==
  IF existingText = Null THEN <<id, 1>> ELSE <<id, existingText[2] + 1>>

\* parseFloat of the aspect-ratio attribute (integral values in this model)
ParseFloat(s) == ParseInt(s)

Aspect(a) ==
  LET aspectAttr == ParseFloat(Coalesce(a.aspect, <<"0">>))
  IN IF aspectAttr.k = "int" /\ aspectAttr.v # 0 THEN aspectAttr.v
     ELSE Image.height \div Image.width

RenderLetters(a, cfg) == Trim(Coalesce(a.letters, cfg.letters))

RenderWords(a, cfg) == IF a.words # Null THEN Split(a.words[1]) ELSE cfg.words

RenderInterval(a, cfg) == ParseInt(Coalesce(a.interval, NumberToString(cfg.update_interval)))

RenderSettingsValid(a, cfg) ==
  /\ isStringNonBlank(RenderLetters(a, cfg))
  /\ isArrayStringNonBlank(RenderWords(a, cfg))
  /\ isNumberNonNegative(RenderInterval(a, cfg))

\* A size change of element e is delivered to every connected observer of e.
Notify(cl, e) ==
  [i \in DOMAIN cl |->
     IF cl[i].el = e /\ cl[i].observing THEN [cl[i] EXCEPT !.pending = TRUE] ELSE cl[i]]

\* resetText(): the height the closure forces
LockedHeight(w, aspect) == Some(w * aspect)

\* new ResizeObserver(resetText); observer.observe(element);
\* setInterval(write(), interval): write() runs once at once, with text undefined
NewClosure(id, e, aspect) ==
  [el |-> e, aspect |-> aspect, text |-> NextFrame(id, Null),
   timer |-> TRUE, observing |-> TRUE, pending |-> TRUE]

\* InitializedInstance
NewInstance(id) == [intervalId |-> id, observer |-> id]

\* instances.set run before render(), whatever render does
OnLoadRegistryEager(inst, e, id, rendered) == MapSet(inst, e, NewInstance(id))

\* lines 211-212: instances.set runs only once render has returned
OnLoadRegistry(inst, e, id, rendered) ==
  IF rendered THEN MapSet(inst, e, NewInstance(id)) ELSE inst

\* --------------------------------------------------------- resetElement
\* destroy() without observer.disconnect()
DestroyTimerOnly(cl, meta) ==
  [i \in DOMAIN cl |-> IF i = meta.intervalId THEN [cl[i] EXCEPT !.timer = FALSE] ELSE cl[i]]

\* InitializedInstance.destroy: clearInterval and observer.disconnect
Destroy(cl, meta) ==
  [i \in DOMAIN cl |->
     LET stopped == IF i = meta.intervalId THEN [cl[i] EXCEPT !.timer = FALSE] ELSE cl[i]
         released == IF i = meta.observer
                     THEN [stopped EXCEPT !.observing = FALSE, !.pending = FALSE]
                     ELSE stopped
     IN \* with neither callback left the closure is unreachable, and so is its text
        IF ~released.timer /\ ~released.observing THEN [released EXCEPT !.text = Null]
        ELSE released]

World == [instances |-> instances, closures |-> closures,
          textContent |-> textContent, height |-> height]

\* resetElement clearing the element before it looks the instance up
ResetOneClearsFirst(w, e) ==
  LET cleared == [w EXCEPT !.textContent[e] = Null, !.height[e] = Null]
  IN IF e \in DOMAIN w.instances
     THEN [w |-> [cleared EXCEPT !.instances = MapDelete(w.instances, e),
                                 !.closures = Destroy(w.closures, w.instances[e])],
           outcome |-> "resolved"]
     ELSE [w |-> cleared, outcome |-> "Element not initialized"]

\* resetElement(element) on the world w: the world after it and its outcome
ResetOne(w, e) ==
  IF e \in DOMAIN w.instances
  THEN [w |-> [instances |-> MapDelete(w.instances, e),
               closures |-> LET d == Destroy(w.closures, w.instances[e])
                            IN IF w.height[e] # Null THEN Notify(d, e) ELSE d,
               textContent |-> [w.textContent EXCEPT ![e] = Null],
               height |-> [w.height EXCEPT ![e] = Null]],
        outcome |-> "resolved"]
  ELSE [w |-> w, outcome |-> "Element not initialized"]

\* Promise.all(elements.map(resetElement)): every executor runs, in order
RECURSIVE ResetAll(_, _, _)
ResetAll(w, els, outcomes) ==
  IF els = <<>> THEN [w |-> w, outcomes |-> outcomes]
  ELSE LET r == ResetOne(w, Head(els))
       IN ResetAll(r.w, Tail(els), Append(outcomes, r.outcome))

Succeeded(els, outcomes) == {els[i] : i \in {j \in DOMAIN els : outcomes[j] = "resolved"}}

ApplyResets(els) ==
  LET r == ResetAll(World, els, <<>>)
  IN /\ instances' = r.w.instances
     /\ closures' = r.w.closures
     /\ textContent' = r.w.textContent
     /\ height' = r.w.height
     /\ cancelled' = cancelled \cup Succeeded(els, r.outcomes)

\* ---------------------------------------------------------- initElement
NewCall(e, stage, promise, error, batch) ==
  [el |-> e, stage |-> stage, promise |-> promise, error |-> error, batch |-> batch]

\* lines 203-209: the executor reads data-lettercrap and starts the image load
ImagePhase(e, src, batch) ==
  IF src = Null \/ src[1] = <<>>
  THEN NewCall(e, "done", "rejected", "No image data provided", batch)
  ELSE NewCall(e, "img", "pending", "", batch)

\* initElement without the `instances.has(element)` return of line 189
StartCallNoGuard(e, batch, inst, a, cfg) ==
  IF a.text # Null
  THEN NewCall(e, "svg", "pending", "", batch)
  ELSE ImagePhase(e, a.src, batch)

\* lines 188-201: initElement up to its first suspension
StartCall(e, batch, inst, a, cfg) ==
  IF e \in DOMAIN inst THEN NewCall(e, "done", "resolved", "", batch)
  ELSE IF a.text # Null
  THEN LET text == Coalesce(a.text, cfg.content)
           font_family == Coalesce(a.font_family, cfg.font_family)
           font_weight == Coalesce(a.font_weight, cfg.font_weight)
       IN IF ~isStringNonBlank(text) \/ ~isStringNonBlank(font_family)
             \/ font_weight \notin fontWeights
          THEN NewCall(e, "done", "rejected", "Invalid settings", batch)
          ELSE NewCall(e, "svg", "pending", "", batch)
  ELSE ImagePhase(e, a.src, batch)

\* elements.map(initElement): each call runs to its first suspension
RECURSIVE StartCalls(_, _)
StartCalls(els, batch) ==
  IF els = <<>> THEN EmptyBag
  ELSE SetToBag({StartCall(Head(els), batch, instances, attrs[Head(els)], config)})
         (+) StartCalls(Tail(els), batch)

\* the promise of call c moves on: c becomes d
Settle(c, d) == (calls (-) SetToBag({c})) (+) SetToBag({d})

Members(b) == {c \in BagToSet(calls) : c.batch = b}

\* calls a refresh() between its two phases still has to start
Reserved == IF refreshPc.pc = "mid" THEN Len(batches[refreshPc.batch].els) ELSE 0

Budget(n) == BagCardinality(calls) + n + Reserved <= MaxCalls

\* Promise.all over the member calls of a batch
BatchPromise(b) ==
  IF ~batches[b].started THEN "pending"
  ELSE IF \E c \in Members(b) : c.promise = "rejected" THEN "rejected"
  ELSE IF \A c \in Members(b) : c.promise = "resolved" THEN "resolved"
  ELSE "pending"

\* timers, image events and observer callbacks are tasks: none runs while a
\* refresh() is between `await resetElements` and `initElements`
TaskMayRun == refreshPc.pc # "mid"

Lists == {<<>>} \cup {<<e>> : e \in Elements} \cup {<<e, f>> : e, f \in Elements}

\* no closure is composing a frame
FrameOff ==
  /\ pc = "off"
  /\ renderText = Null
  /\ pending = FALSE
  /\ frames = 0
  /\ made = Null
  /\ strippedText = Null
  /\ chars = <<>>
  /\ start_of_filled_in_sequence = Null
  /\ cellIndex = 0
  /\ column = 0
  /\ image = <<>>

\* ---------------------------------------------------------------- Init
InitOn(pages) ==
  /\ config = DefaultConfig
  /\ cfgResult = "none"
  /\ attrs \in pages
  /\ width = [e \in Elements |-> 60]
  /\ textContent = [e \in Elements |-> Null]
  /\ height = [e \in Elements |-> Null]
  /\ instances = <<>>
  /\ closures = <<>>
  /\ calls = EmptyBag
  /\ batches = <<>>
  /\ refreshPc = [pc |-> "idle", batch |-> 0]
  /\ cancelled = {}
  /\ FrameOff

Init == InitOn(Pages)

InitBatch == InitOn(BatchPages)

domVars == <<attrs, width, textContent, height>>

cfgVars == <<config, cfgResult>>

\* ------------------------------------------------------------- actions
\* configure assigning the provided fields before it validates the preview
ConfigureAssignFirst(userConfig) ==
  /\ config' = Assigned(config, userConfig)
  /\ cfgResult' = IF ~isConfigValid(Preview(config, userConfig)) THEN "Invalid settings" ELSE "ok"
  /\ UNCHANGED <<attrs, width, textContent, height, instances, closures, calls,
                 batches, refreshPc, cancelled, frameVars>>

\* configure validating and assigning one field at a time
ConfigureFieldwise(userConfig) ==
  /\ cfgResult' = IF ~isConfigValid(Preview(config, userConfig)) THEN "Invalid settings" ELSE "ok"
  /\ config' = [key \in ConfigKeys |->
                  IF isConfigValid([config EXCEPT ![key] = Preview(config, userConfig)[key]])
                  THEN Preview(config, userConfig)[key] ELSE config[key]]
  /\ UNCHANGED <<attrs, width, textContent, height, instances, closures, calls,
                 batches, refreshPc, cancelled, frameVars>>

\* configure(userConfig), lines 53-59
Configure(userConfig) ==
  /\ IF ~isConfigValid(Preview(config, userConfig))
     THEN /\ cfgResult' = "Invalid settings"
          /\ config' = config
     ELSE /\ cfgResult' = "ok"
          /\ config' = Assigned(config, userConfig)
  /\ UNCHANGED <<attrs, width, textContent, height, instances, closures, calls,
                 batches, refreshPc, cancelled, frameVars>>

\* initElement(element) called directly
InitElement(e) ==
  /\ Budget(1)
  /\ calls' = calls (+) SetToBag({StartCall(e, 0, instances, attrs[e], config)})
  /\ cancelled' = cancelled \ {e}
  /\ UNCHANGED <<frameVars, cfgVars, domVars, instances, closures, batches, refreshPc>>

\* initElements(elements)
StartBatch(els) ==
  /\ Len(batches) < MaxBatches
  /\ calls' = calls (+) StartCalls(els, Len(batches) + 1)
  /\ batches' = Append(batches, [els |-> els, started |-> TRUE])
  /\ cancelled' = cancelled \ Range(els)

InitElements(els) ==
  /\ Budget(Len(els))
  /\ StartBatch(els)
  /\ UNCHANGED <<frameVars, cfgVars, domVars, instances, closures, refreshPc>>

\* init(): querySelectorAll('div[data-lettercrap], div[data-lettercrap-text]')
Selected == FilterSeq(ElementOrder, {e \in Elements : attrs[e].src # Null \/ attrs[e].text # Null})

InitAll ==
  /\ Budget(Len(Selected))
  /\ StartBatch(Selected)
  /\ UNCHANGED <<frameVars, cfgVars, domVars, instances, closures, refreshPc>>

\* resetElement(element)
ResetElement(e) ==
  /\ ApplyResets(<<e>>)
  /\ UNCHANGED <<frameVars, cfgVars, attrs, width, calls, batches, refreshPc>>

\* resetElements(elements)
ResetElements(els) ==
  /\ ApplyResets(els)
  /\ UNCHANGED <<frameVars, cfgVars, attrs, width, calls, batches, refreshPc>>

\* reset()
Reset ==
  /\ ApplyResets(InstanceKeys(instances))
  /\ UNCHANGED <<frameVars, cfgVars, attrs, width, calls, batches, refreshPc>>

\* refresh(), lines 91-92: the snapshot and `await resetElements(elements)`
RefreshStart ==
  /\ refreshPc.pc = "idle" \/ (refreshPc.pc = "wait" /\ BatchPromise(refreshPc.batch) # "pending")
  /\ LET elements == InstanceKeys(instances)
     IN /\ BagCardinality(calls) + Len(elements) <= MaxCalls
        /\ Len(batches) < MaxBatches
        /\ ApplyResets(elements)
        /\ batches' = Append(batches, [els |-> elements, started |-> FALSE])
        /\ refreshPc' = [pc |-> "mid", batch |-> Len(batches) + 1]
  /\ UNCHANGED <<frameVars, cfgVars, attrs, width, calls>>

\* refresh(), line 93: `await initElements(elements)`
RefreshInit ==
  /\ refreshPc.pc = "mid"
  /\ LET b == refreshPc.batch
         els == batches[b].els
     IN /\ calls' = calls (+) StartCalls(els, b)
        /\ batches' = [batches EXCEPT ![b].started = TRUE]
        /\ cancelled' = cancelled \ Range(els)
  /\ refreshPc' = [refreshPc EXCEPT !.pc = "wait"]
  /\ UNCHANGED <<frameVars, cfgVars, domVars, instances, closures>>

\* getImageData resolved: line 200 sets data-lettercrap, then lines 203-209
SvgLoaded(c) ==
  /\ BagIn(c, calls) /\ c.stage = "svg" /\ TaskMayRun
  /\ LET e == c.el
     IN /\ attrs' = [attrs EXCEPT ![e].src = Some(DataUrl)]
        /\ calls' = Settle(c, ImagePhase(e, Some(DataUrl), c.batch))
  /\ UNCHANGED <<frameVars, cfgVars, width, textContent, height, instances, closures, batches,
                 refreshPc, cancelled>>

\* getImageData rejected (image.onerror = reject, line 249)
SvgError(c) ==
  /\ BagIn(c, calls) /\ c.stage = "svg" /\ TaskMayRun
  /\ calls' = Settle(c, [c EXCEPT !.stage = "done", !.promise = "rejected",
                                  !.error = "load error"])
  /\ UNCHANGED <<frameVars, cfgVars, domVars, instances, closures, batches, refreshPc, cancelled>>

\* image.onerror = reject, line 209
ImageError(c) ==
  /\ BagIn(c, calls) /\ c.stage = "img" /\ TaskMayRun
  /\ calls' = Settle(c, [c EXCEPT !.stage = "done", !.promise = "rejected",
                                  !.error = "load error"])
  /\ UNCHANGED <<frameVars, cfgVars, domVars, instances, closures, batches, refreshPc, cancelled>>

\* image.onload, lines 210-214, with render(element, image), lines 268-285
ImageLoad(c) ==
  /\ BagIn(c, calls) /\ c.stage = "img" /\ TaskMayRun
  /\ LET e == c.el
         id == Len(closures) + 1
         aspect == Aspect(attrs[e])
         h == LockedHeight(width[e], aspect)
         sized == IF height[e] # h THEN Notify(closures, e) ELSE closures
         rendered == RenderSettingsValid(attrs[e], config)
     IN /\ height' = [height EXCEPT ![e] = h]
        /\ instances' = OnLoadRegistry(instances, e, id, rendered)
        /\ IF ~rendered
           THEN \* render throws inside the event handler: nothing settles the promise
                /\ calls' = Settle(c, [c EXCEPT !.stage = "done", !.error = "Invalid settings"])
                /\ closures' = sized
                /\ UNCHANGED textContent
           ELSE /\ closures' = Append(sized, NewClosure(id, e, aspect))
                /\ textContent' = [textContent EXCEPT ![e] = NextFrame(id, Null)]
                /\ calls' = Settle(c, [c EXCEPT !.stage = "done", !.promise = "resolved"])
  /\ UNCHANGED <<frameVars, cfgVars, attrs, width, batches, refreshPc, cancelled>>

\* write() that shows the frame without keeping it in `text`
TickDropsText(id) ==
  /\ id \in DOMAIN closures /\ closures[id].timer /\ TaskMayRun
  /\ IF closures[id].text = Null THEN TRUE ELSE closures[id].text[2] < MaxFrames
  /\ textContent' = [textContent EXCEPT ![closures[id].el] = NextFrame(id, closures[id].text)]
  /\ UNCHANGED <<frameVars, cfgVars, attrs, width, height, instances, closures, calls, batches,
                 refreshPc, cancelled>>

\* one run of the interval callback write(), lines 293-299
Tick(id) ==
  /\ id \in DOMAIN closures /\ closures[id].timer /\ TaskMayRun
  /\ IF closures[id].text = Null THEN TRUE ELSE closures[id].text[2] < MaxFrames
  /\ LET text == NextFrame(id, closures[id].text)
     IN /\ closures' = [closures EXCEPT ![id].text = text]
        /\ textContent' = [textContent EXCEPT ![closures[id].el] = text]
  /\ UNCHANGED <<frameVars, cfgVars, attrs, width, height, instances, calls, batches, refreshPc,
                 cancelled>>

\* the ResizeObserver callback resetText(), lines 287-291
ResizeCallback(id) ==
  /\ id \in DOMAIN closures /\ closures[id].observing /\ closures[id].pending /\ TaskMayRun
  /\ LET e == closures[id].el
         h == LockedHeight(width[e], closures[id].aspect)
         delivered == [closures EXCEPT ![id].text = Null, ![id].pending = FALSE]
     IN /\ closures' = IF height[e] # h THEN Notify(delivered, e) ELSE delivered
        /\ height' = [height EXCEPT ![e] = h]
  /\ UNCHANGED <<frameVars, cfgVars, attrs, width, textContent, instances, calls, batches, refreshPc,
                 cancelled>>

\* the layout changes the width of an element
EnvResize(e, w) ==
  /\ w # width[e] /\ TaskMayRun
  /\ width' = [width EXCEPT ![e] = w]
  /\ closures' = Notify(closures, e)
  /\ UNCHANGED <<frameVars, cfgVars, attrs, textContent, height, instances, calls, batches, refreshPc,
                 cancelled>>

\* ------------------------------------- getTextContentWithImageAtSize
char_width == 6

char_height == 10

\* existingText?.replace(/\r?\n|\r/g, '')
RECURSIVE StripBreaks(_)
StripBreaks(s) ==
  IF s = <<>> THEN <<>>
  ELSE IF Head(s) \in {"\n", "\r"} THEN StripBreaks(Tail(s))
  ELSE <<Head(s)>> \o StripBreaks(Tail(s))

StripOptional(t) == IF t = Null THEN Null ELSE Some(StripBreaks(t[1]))

\* The Math.random() results one cell may consume, in hundredths, by the call
\* that reads them: below and above 0.1, below and above 0.05, and low and
\* middle for a choice.
Draws == [replace : {7, 50}, letter : {2, 50}, word : {2, 50}, again : {7, 50}, pick : {2, 50}]

shouldReplaceWord(r) == r < 5

\* !existingText || Math.random() < 0.1
shouldReplaceExistingText(existing, r) == existing = Null \/ existing[1] = <<>> \/ r < 10

\* list[Math.floor(Math.random() * list.length)]
randomChoice(list, r) == list[((r * Len(list)) \div 100) + 1]

\* `chars += undefined` appends the word "undefined"
UndefinedText == <<"u", "n", "d", "e", "f", "i", "n", "e", "d">>

\* existingText![i], as string concatenation sees it
CharAt(str, n) == IF n + 1 <= Len(str) THEN <<str[n + 1]>> ELSE UndefinedText

\* chars.substring(0, n)
Substring(str, n) == IF n <= 0 THEN <<>> ELSE SubSeq(str, 1, IF n < Len(str) THEN n ELSE Len(str))

Pixel(r, g, b, a) == [r |-> r, g |-> g, b |-> b, a |-> a]

\* lines 336-338: black && !transparent
IsFilledLoose(p) == p.r <= 120 /\ p.a >= 50

IsFilled(p) ==
  LET black == p.r < 120
      transparent == p.a < 50
  IN black /\ ~transparent

\* canvas.width = width / char_width (an unsigned long: the fraction is dropped)
CanvasWidth(w) == w \div char_width

CanvasHeight(h) == h \div char_height

\* drawImage(image, 0, 0, canvas.width, canvas.height) and getImageData: the
\* pixel of cell n of a cols x rows canvas, sampled from the nearest pixel
Sample(img, cols, rows, n) ==
  LET cx == n % cols
      cy == n \div cols
  IN img[((cy * Len(img)) \div rows) + 1][((cx * Len(img[1])) \div cols) + 1]

\* lines 338-350 with a run start that survives the end of a row or an empty cell
ComposeCellKeepsRun(st, px, existing, words, letters, d) ==
  IF IsFilled(px)
  THEN LET start == IF st.start = Null THEN Some(st.i) ELSE st.start
           emitted == st.chars \o (IF shouldReplaceExistingText(existing, d.replace)
                                   THEN <<randomChoice(letters, d.letter)>>
                                   ELSE CharAt(existing[1], st.i))
           word == randomChoice(words, d.pick)
       IN [chars |-> IF Len(words) > 0 /\ shouldReplaceWord(d.word)
                        /\ shouldReplaceExistingText(existing, d.again)
                        /\ Len(word) > 0 /\ st.i + 1 - start[1] >= Len(word)
                     THEN Substring(emitted, Len(emitted) - Len(word)) \o word
                     ELSE emitted,
           start |-> start, i |-> st.i + 1]
  ELSE [chars |-> st.chars \o <<" ">>, start |-> st.start, i |-> st.i + 1]

\* lines 332-351: one cell of the canvas.  st is [chars, start, i]; px the
\* pixel; d the random numbers drawn.
ComposeCell(st, px, existing, words, letters, d) ==
  IF IsFilled(px)
  THEN LET start == IF st.start = Null THEN Some(st.i) ELSE st.start
           emitted == st.chars \o (IF shouldReplaceExistingText(existing, d.replace)
                                   THEN <<randomChoice(letters, d.letter)>>
                                   ELSE CharAt(existing[1], st.i))
           word == randomChoice(words, d.pick)
       IN [chars |-> IF Len(words) > 0 /\ shouldReplaceWord(d.word)
                        /\ shouldReplaceExistingText(existing, d.again)
                        /\ Len(word) > 0 /\ st.i + 1 - start[1] >= Len(word)
                     THEN Substring(emitted, Len(emitted) - Len(word)) \o word
                     ELSE emitted,
           start |-> start, i |-> st.i + 1]
  ELSE [chars |-> st.chars \o <<" ">>, start |-> Null, i |-> st.i + 1]

\* ------------------------------------------- one closure and its frames
Surface == "e1"

\* element.clientHeight: the height resetText() forced
ClientHeight == IF height[Surface] = Null THEN 0 ELSE height[Surface][1]

Cols == CanvasWidth(width[Surface])

Rows == CanvasHeight(ClientHeight)

\* the settings render() resolved (lines 274-278)
Letters == RenderLetters(attrs[Surface], config)

Words == RenderWords(attrs[Surface], config)

\* getTextContentWithImageAtSize(image, width, height, text, words, letters)
\* is entered: lines 310-328
BeginCompose(previous) ==
  /\ pc' = "loop"
  /\ frames' = frames + 1
  /\ strippedText' = StripOptional(previous)
  /\ chars' = <<>>
  /\ start_of_filled_in_sequence' = Some(0)
  /\ cellIndex' = 0
  /\ column' = 0

lifeVars == <<instances, closures, calls, batches, refreshPc, cancelled>>

\* render(element, image), lines 268-285, up to the call of write()
RenderFrame ==
  /\ pc = "off"
  /\ RenderSettingsValid(attrs[Surface], config)
  /\ height' = [height EXCEPT ![Surface] = LockedHeight(width[Surface], Aspect(attrs[Surface]))]
  /\ renderText' = Null
  /\ made' = Null
  /\ pending' = TRUE
  /\ BeginCompose(Null)
  /\ UNCHANGED <<cfgVars, lifeVars, attrs, width, textContent, image>>

\* the interval fires: write(), lines 293-296
WriteFrame ==
  /\ pc = "idle"
  /\ frames < MaxFrames
  /\ BeginCompose(renderText)
  /\ UNCHANGED <<cfgVars, lifeVars, domVars, renderText, pending, made, image>>

\* one pass of the inner loop
ComposeStep(d) ==
  /\ pc = "loop"
  /\ column < Cols
  /\ cellIndex < Cols * Rows
  /\ LET st == ComposeCell([chars |-> chars, start |-> start_of_filled_in_sequence,
                            i |-> cellIndex],
                           Sample(image, Cols, Rows, cellIndex), strippedText, Words, Letters, d)
     IN /\ chars' = st.chars
        /\ start_of_filled_in_sequence' = st.start
        /\ cellIndex' = st.i
  /\ column' = column + 1
  /\ UNCHANGED <<cfgVars, lifeVars, domVars, pc, renderText, pending, frames, made, strippedText,
                 image>>

\* lines 353-354 with the run start left as it is
ComposeRowEndKeepsRun ==
  /\ pc = "loop"
  /\ column = Cols
  /\ chars' = chars \o <<"\n">>
  /\ column' = 0
  /\ UNCHANGED <<cfgVars, lifeVars, domVars, pc, renderText, pending, frames, made, strippedText,
                 cellIndex, image, start_of_filled_in_sequence>>

\* the end of a row, lines 353-354
ComposeRowEnd ==
  /\ pc = "loop"
  /\ column = Cols
  /\ chars' = chars \o <<"\n">>
  /\ start_of_filled_in_sequence' = Null
  /\ column' = 0
  /\ UNCHANGED <<cfgVars, lifeVars, domVars, pc, renderText, pending, frames, made, strippedText,
                 cellIndex, image>>

\* line 356 and lines 296-297: text = chars; element.textContent = text
ComposeReturn ==
  /\ pc = "loop"
  /\ column = 0
  /\ cellIndex = Cols * Rows
  /\ renderText' = Some(chars)
  /\ textContent' = [textContent EXCEPT ![Surface] = Some(chars)]
  /\ made' = Some(<<Cols, Rows>>)
  /\ pc' = "idle"
  /\ chars' = <<>>
  /\ strippedText' = Null
  /\ start_of_filled_in_sequence' = Null
  /\ cellIndex' = 0
  /\ UNCHANGED <<cfgVars, lifeVars, attrs, width, height, pending, frames, column, image>>

\* the layout gives the surface another width
ResizeFrame(w) ==
  /\ pc = "idle"
  /\ w # width[Surface]
  /\ width' = [width EXCEPT ![Surface] = w]
  /\ pending' = TRUE
  /\ UNCHANGED <<cfgVars, lifeVars, attrs, height, textContent, pc, renderText, frames, made,
                 strippedText, chars, start_of_filled_in_sequence, cellIndex, column, image>>

\* the ResizeObserver callback: resetText(), lines 287-291
ResetText ==
  /\ pc = "idle"
  /\ pending
  /\ renderText' = Null
  /\ made' = Null
  /\ LET h == LockedHeight(width[Surface], Aspect(attrs[Surface]))
     IN /\ height' = [height EXCEPT ![Surface] = h]
        /\ pending' = (height[Surface] # h)
  /\ UNCHANGED <<cfgVars, lifeVars, attrs, width, textContent, pc, frames, strippedText,
                 chars, start_of_filled_in_sequence, cellIndex, column, image>>

Dark == Pixel(0, 0, 0, 255)

Light == Pixel(255, 255, 255, 255)

\* the images a surface may show
Pictures ==
  { <<<<Dark, Dark>>, <<Dark, Dark>>>>,
    <<<<Light, Dark>>, <<Dark, Dark>>>>,
    <<<<Dark, Light>>, <<Dark, Dark>>>> }

FrameWidths == {6, 12}

\* palette "01" with and without the words "hi xyz", and a palette that holds
\* a line break
FrameProfiles ==
  { [NoAttrs EXCEPT !.src = Some(<<"u">>), !.aspect = Some(<<"2">>),
                    !.letters = Some(<<"0", "1">>)],
    [NoAttrs EXCEPT !.src = Some(<<"u">>), !.aspect = Some(<<"2">>),
                    !.letters = Some(<<"0", "1">>),
                    !.words = Some(<<"h", "i", " ", "x", "y", "z">>)],
    [NoAttrs EXCEPT !.src = Some(<<"u">>), !.aspect = Some(<<"2">>),
                    !.letters = Some(<<"a", "\n", "b">>)] }

\* the image of one surface has loaded and render() is about to run
InitFrameOn(profiles, pictures) ==
  /\ config = DefaultConfig
  /\ cfgResult = "none"
  /\ attrs \in {Page(p, NoAttrs) : p \in profiles}
  /\ width \in {[e \in Elements |-> w] : w \in FrameWidths}
  /\ textContent = [e \in Elements |-> Null]
  /\ height = [e \in Elements |-> Null]
  /\ instances = <<>>
  /\ closures = <<>>
  /\ calls = EmptyBag
  /\ batches = <<>>
  /\ refreshPc = [pc |-> "idle", batch |-> 0]
  /\ cancelled = {}
  /\ pc = "off"
  /\ renderText = Null
  /\ pending = FALSE
  /\ frames = 0
  /\ made = Null
  /\ strippedText = Null
  /\ chars = <<>>
  /\ start_of_filled_in_sequence = Null
  /\ cellIndex = 0
  /\ column = 0
  /\ image \in pictures

InitFrame == InitFrameOn(FrameProfiles, Pictures)

\* one-pixel images: every red with the alphas around the threshold, every
\* alpha with the reds around the threshold, any green and blue
PixelPictures ==
  { <<<<Pixel(r, g, b, a)>>>> : r \in 0..255, g \in {0, 255}, b \in {0, 255},
                                a \in {0, 49, 50, 255} }
    \cup
  { <<<<Pixel(r, g, b, a)>>>> : r \in {0, 119, 120, 255}, g \in {0, 255}, b \in {0, 255},
                                a \in 0..255 }

PixelProfiles == {[NoAttrs EXCEPT !.src = Some(<<"u">>), !.aspect = Some(<<"2">>)]}

InitPixel == InitFrameOn(PixelProfiles, PixelPictures)

NextFrameStep ==
  \/ RenderFrame
  \/ WriteFrame
  \/ \E d \in Draws : ComposeStep(d)
  \/ ComposeRowEnd
  \/ ComposeReturn
  \/ \E w \in FrameWidths : ResizeFrame(w)
  \/ ResetText

SpecFrame == InitFrame /\ [][NextFrameStep]_vars

\* the first frame of every one-pixel image
NextPixel ==
  \/ RenderFrame
  \/ \E d \in Draws : ComposeStep(d)
  \/ ComposeRowEnd
  \/ ComposeReturn

SpecPixel == InitPixel /\ [][NextPixel]_vars

\* ---------------------------------------------------- specifications
Undefined == Null

Update(keys, vals) == [keys |-> keys, vals |-> vals]

NoVals == [key \in ConfigKeys |-> Undefined]

\* the updates applied while surfaces are live
LifecycleUpdates ==
  { Update({"update_interval"}, [NoVals EXCEPT !.update_interval = Some(Infinity)]) }

ImageEvents ==
  \E c \in BagToSet(calls) : SvgLoaded(c) \/ SvgError(c) \/ ImageLoad(c) \/ ImageError(c)

\* The life of the surfaces: activation and deactivation called one surface at
\* a time, the image events, the timers, the observers and the layout.
Next ==
  \/ \E u \in LifecycleUpdates : Configure(u)
  \/ \E e \in Elements : InitElement(e)
  \/ \E e \in Elements : ResetElement(e)
  \/ ImageEvents
  \/ \E id \in 1..MaxCalls : Tick(id) \/ ResizeCallback(id)
  \/ \E e \in Elements, w \in Widths : EnvResize(e, w)

Spec == Init /\ [][Next]_vars

\* The batch operations and refresh(), with configure() between them.
NextBatch ==
  \/ \E u \in LifecycleUpdates : Configure(u)
  \/ \E els \in Lists : InitElements(els)
  \/ InitAll
  \/ \E els \in Lists : ResetElements(els)
  \/ Reset
  \/ RefreshStart
  \/ RefreshInit
  \/ ImageEvents

SpecBatch == InitBatch /\ [][NextBatch]_vars

\* configure() alone, over every partial update of at most MaxKeys keys
ConfigValues ==
  [content |-> {<<>>, <<" ">>, <<"a">>},
   letters |-> {<<" ", " ">>, <<"x">>},
   words |-> {<<<<"w">>>>, <<<<"w">>, <<" ">>>>},
   font_family |-> {<<>>},
   font_weight |-> {"bold"},
   update_interval |-> {Num(0), Num(0 - 1), NaN, Infinity}]

\* what a key of the update may hold: undefined or one of its values
Held(key, keys) ==
  IF key \in keys THEN {Undefined} \cup {Some(x) : x \in ConfigValues[key]} ELSE {Undefined}

UpdatesOn(keys) ==
  {Update(keys, vals) :
     vals \in [content : Held("content", keys), letters : Held("letters", keys),
               words : Held("words", keys), font_family : Held("font_family", keys),
               font_weight : Held("font_weight", keys),
               update_interval : Held("update_interval", keys)]}

Updates == UNION {UpdatesOn(keys) : keys \in {k \in SUBSET ConfigKeys : Cardinality(k) <= MaxKeys}}

InitConfig == InitOn({Page(NoAttrs, NoAttrs)})

NextConfig == \E u \in Updates : Configure(u)

SpecConfig == InitConfig /\ [][NextConfig]_vars

\* configure() while activations are on their way: an update of two fields
\* that is valid and one that is not
SettingsUpdates ==
  { Update({"letters", "words"},
           [NoVals EXCEPT !.letters = Some(<<"x">>), !.words = Some(<<<<"w">>>>)]),
    Update({"letters", "words"},
           [NoVals EXCEPT !.letters = Some(<<" ">>), !.words = Some(<<<<"v">>>>)]),
    Update({"content", "update_interval"},
           [NoVals EXCEPT !.content = Some(<<"a">>), !.update_interval = Some(Num(0))]) }

SettingsProfiles ==
  { [NoAttrs EXCEPT !.src = Some(<<"u">>)],
    [NoAttrs EXCEPT !.text = Some(<<"h", "i">>)] }

InitSettings == InitOn({Page(p, NoAttrs) : p \in SettingsProfiles})

NextSettings ==
  \/ \E u \in SettingsUpdates : Configure(u)
  \/ \E e \in Elements : InitElement(e)
  \/ ImageEvents

SpecSettings == InitSettings /\ [][NextSettings]_vars

\* ------------------------------------------------------------- claims
RunningTimers(e) == {id \in DOMAIN closures : closures[id].el = e /\ closures[id].timer}

ConnectedObservers(e) == {id \in DOMAIN closures : closures[id].el = e /\ closures[id].observing}

\* C1: once resetElement(e) has succeeded, and until an initElement(e) is
\* started, no interval callback writes into e and no observer callback sets
\* its height.
C1_Cancellation ==
  [][\A id \in DOMAIN closures :
       (closures[id].el \in cancelled /\ closures[id].el \in cancelled')
         => ~Tick(id) /\ ~ResizeCallback(id)]_vars

\* C2: every surface has at most one running timer and one connected observer,
\* and they are the ones its registry entry holds (none when it has no entry).
C2_OneRuntimePerSurface ==
  \A e \in Elements :
    /\ RunningTimers(e) = IF e \in DOMAIN instances THEN {instances[e].intervalId} ELSE {}
    /\ ConnectedObservers(e) = IF e \in DOMAIN instances THEN {instances[e].observer} ELSE {}

\* C3: an initElement call that has run to its end has settled, and one that
\* ended on an error (invalid settings, no image data, a failed load) rejected.
C3_FailureSurfaces ==
  \A c \in BagToSet(calls) :
    c.stage = "done" =>
      /\ c.promise # "pending"
      /\ c.error # "" => c.promise = "rejected"

Blank(str) == \A i \in DOMAIN str : str[i] = " "

Provided(u, key) == key \in u.keys /\ u.vals[key] # Undefined

Merged(cfg, u) == [key \in ConfigKeys |-> IF Provided(u, key) THEN u.vals[key][1] ELSE cfg[key]]

FailsValidation(m) ==
  \/ Blank(m.content)
  \/ Blank(m.letters)
  \/ \E i \in DOMAIN m.words : Blank(m.words[i])
  \/ m.update_interval.k = "nan"
  \/ (m.update_interval.k = "int" /\ m.update_interval.v < 0)

\* C4: configure is atomic-or-nothing: when the stored settings merged with the
\* update have blank content, blank letters, a blank word or a negative or NaN
\* interval, configure fails with 'Invalid settings' and the store keeps every
\* field; otherwise exactly the provided fields are overwritten.
C4_ConfigureAtomic ==
  [][\A u \in Updates :
       Configure(u) =>
         IF FailsValidation(Merged(config, u))
         THEN cfgResult' = "Invalid settings" /\ config' = config
         ELSE cfgResult' = "ok" /\ config' = Merged(config, u)]_vars

\* a rejected update after an accepted one: the accepted letters are still there
C4_Witness == cfgResult = "Invalid settings" /\ config.letters = <<"x">>

\* C5: initElement on a surface that is in the registry resolves at once and
\* changes nothing: no timer, no observer, the same entry, the same text,
\* height and closure text.
C5_ActivateIdempotent ==
  [][\A e \in DOMAIN instances :
       InitElement(e) =>
         /\ calls' = calls (+) SetToBag({NewCall(e, "done", "resolved", "", 0)})
         /\ UNCHANGED <<instances, closures, textContent, height, attrs>>]_vars

\* two calls on e1 have resolved and only one closure was ever made
C5_Witness ==
  /\ "e1" \in DOMAIN instances
  /\ CopiesIn(NewCall("e1", "done", "resolved", "", 0), calls) >= 2
  /\ Len(closures) = 1

\* C6: resetElement on a surface that is not in the registry rejects with
\* 'Element not initialized' and leaves the registry, every timer and observer
\* and the surface's text and height as they are.
C6_ResetNotActive ==
  /\ [](\A e \in Elements \ DOMAIN instances :
          LET r == ResetOne(World, e)
          IN r.outcome = "Element not initialized" /\ r.w = World)
  /\ [][\A e \in Elements \ DOMAIN instances :
          ResetElement(e) => UNCHANGED <<instances, closures, textContent, height>>]_vars

\* e1 is out of the registry with an activation in flight, already deactivated
\* once, while a timer still runs and the element shows text
C6_Witness ==
  /\ "e1" \notin DOMAIN instances
  /\ "e1" \in cancelled
  /\ \E c \in BagToSet(calls) : c.el = "e1" /\ c.stage = "img"
  /\ RunningTimers("e1") # {}
  /\ textContent["e1"] # Null

\* C7: resetElement on a registered surface stops its timer, disconnects its
\* observer, removes its entry and clears its text and height in one step; and
\* every registration makes a new timer and observer whose first frame is
\* composed from no previous text.
C7_ResetThenFresh ==
  [][/\ \A e \in DOMAIN instances :
          ResetElement(e) =>
            /\ ~closures'[instances[e].intervalId].timer
            /\ ~closures'[instances[e].observer].observing
            /\ e \notin DOMAIN instances'
            /\ textContent'[e] = Null
            /\ height'[e] = Null
     /\ \A e \in DOMAIN instances' :
          (e \notin DOMAIN instances \/ instances'[e] # instances[e]) =>
            LET m == instances'[e]
            IN /\ m.intervalId \notin DOMAIN closures
               /\ m.observer \notin DOMAIN closures
               /\ closures'[m.intervalId].timer
               /\ closures'[m.observer].observing
               /\ closures'[m.intervalId].text = <<m.intervalId, 1>>
               /\ textContent'[e] = <<m.intervalId, 1>>]_vars

\* e1 was activated, deactivated and activated again
C7_Witness ==
  /\ "e1" \in DOMAIN instances
  /\ instances["e1"].intervalId = 2
  /\ ~closures[1].timer /\ ~closures[1].observing
  /\ closures[2].timer /\ closures[2].observing

\* C8: a refresh() whose reactivations have all run to their end has settled:
\* it resolved, or it rejected to its caller.
C8_RefreshSettles ==
  (refreshPc.pc = "wait" /\ \A c \in Members(refreshPc.batch) : c.stage = "done")
    => BatchPromise(refreshPc.batch) # "pending"

\* C9: a batch with a member that failed rejects.
C9_BatchRejects ==
  \A b \in DOMAIN batches :
    (/\ batches[b].started
     /\ \A c \in Members(b) : c.stage = "done"
     /\ \E c \in Members(b) : c.promise # "resolved")
      => BatchPromise(b) = "rejected"

Failed(c) == c.stage = "done" /\ c.promise # "resolved"

\* C10: a registry entry is made only by an initElement call that resolves in
\* that step, and a step in which a call fails makes none.
C10_RegisteredOnlyOnSuccess ==
  [][/\ \A e \in DOMAIN instances' :
          (e \notin DOMAIN instances \/ instances'[e] # instances[e]) =>
            \E c \in BagToSet(calls) :
              /\ c.el = e /\ c.stage = "img"
              /\ calls' = Settle(c, [c EXCEPT !.stage = "done", !.promise = "resolved"])
     /\ (\E c \in BagToSet(calls') : Failed(c) /\ CopiesIn(c, calls') > CopiesIn(c, calls))
          => instances' = instances]_vars

\* one activation threw in render and one lost its image, and nothing is registered
C10_Witness ==
  /\ \E c \in BagToSet(calls) : c.stage = "done" /\ c.promise = "pending"
  /\ \E c \in BagToSet(calls) : c.promise = "rejected" /\ c.error = "load error"
  /\ DOMAIN instances = {}

\* C11: within one closure the frames are threaded: render's first write
\* composes from no previous text and keeps its frame; a tick shows the frame
\* composed from the text the closure holds and keeps that frame for the next
\* tick; a resize callback empties the held text; and no other step changes
\* the text of a closure that still has a callback.
C11_TickOrdering ==
  [][/\ \A id \in DOMAIN closures :
          /\ Tick(id) =>
               /\ textContent'[closures[id].el] = NextFrame(id, closures[id].text)
               /\ closures'[id].text = textContent'[closures[id].el]
          /\ ResizeCallback(id) => closures'[id].text = Null
          /\ closures'[id].text # closures[id].text =>
               \/ Tick(id)
               \/ ResizeCallback(id)
               \/ ~closures'[id].timer /\ ~closures'[id].observing
     /\ \A id \in DOMAIN closures' \ DOMAIN closures :
          /\ closures'[id].text = NextFrame(id, Null)
          /\ textContent'[closures'[id].el] = NextFrame(id, Null)]_vars

\* the resize callback has emptied the text and two ticks have run since
C11_Witness ==
  \E id \in DOMAIN closures :
    /\ closures[id].timer
    /\ ~closures[id].pending
    /\ closures[id].text = <<id, 2>>
    /\ textContent[closures[id].el] = <<id, 2>>

\* the pixel of the cell the compositor is at
CurrentPixel == Sample(image, Cols, Rows, cellIndex)

\* str with its last Len(word) characters replaced by word
WithWord(str, word) == SubSeq(str, 1, Len(str) - Len(word)) \o word

\* what a cell may leave in chars when it emits the one character c
Emits(c) == {chars \o <<c>>} \cup {WithWord(chars \o <<c>>, Words[k]) : k \in DOMAIN Words}

\* C12: a filled cell whose index is beyond the end of the previous text emits
\* one character drawn from the palette (which an injected word may then
\* overwrite).
C12_OutOfRangeDrawsPalette ==
  [][\A d \in Draws :
       (/\ ComposeStep(d)
        /\ IsFilled(CurrentPixel)
        /\ strippedText # Null
        /\ cellIndex >= Len(strippedText[1]))
         => \E k \in DOMAIN Letters : chars' \in Emits(Letters[k])]_vars

\* the character the frame being composed holds for cell n, when every cell
\* before it has emitted one character
CellChar(n) == chars[n + (n \div Cols) + 1]

WordChars == UNION {Range(Words[k]) : k \in DOMAIN Words}

\* C13 as stated: composing from no previous text, every filled cell holds a
\* character of the palette and every empty cell a space.
C13_FirstFramePalette ==
  (pc = "loop" /\ strippedText = Null) =>
    \A n \in 0..(cellIndex - 1) :
      IF IsFilled(Sample(image, Cols, Rows, n))
      THEN CellChar(n) \in Range(Letters)
      ELSE CellChar(n) = " "

\* C13, amended: composing from no previous text, every filled cell holds a
\* character of the palette or a character of a configured word, a palette
\* character when no word is configured, and every empty cell holds a space.
C13_FirstFramePaletteOrWord ==
  (pc = "loop" /\ strippedText = Null) =>
    \A n \in 0..(cellIndex - 1) :
      IF IsFilled(Sample(image, Cols, Rows, n))
      THEN CellChar(n) \in Range(Letters) \cup WordChars
      ELSE CellChar(n) = " "

\* a first frame of two rows is complete; its first row starts with an empty
\* cell and its second row holds an injected word
C13_Witness ==
  /\ pc = "loop" /\ strippedText = Null
  /\ Cols = 2 /\ cellIndex = 4 /\ column = 0
  /\ chars[1] = " "
  /\ SubSeq(chars, 4, 5) = <<"h", "i">>

\* C14: a filled cell that reuses the character of the previous frame (its
\* replacement draw said no) is not the end of an injected word: the cell adds
\* that character and changes nothing else.
C14_WordOnlyAfterReplacement ==
  [][\A d \in Draws :
       (/\ ComposeStep(d)
        /\ IsFilled(CurrentPixel)
        /\ strippedText # Null
        /\ cellIndex < Len(strippedText[1])
        /\ ~(d.replace < 10))
         => chars' = Append(chars, strippedText[1][cellIndex + 1])]_vars

\* the first cell of the run of filled cells that cell n of the canvas ends:
\* the cells from it to n are filled and lie in the row of n
RunStart(n) ==
  CHOOSE k \in 0..n :
    /\ k \div Cols = n \div Cols
    /\ \A m \in k..n : IsFilled(Sample(image, Cols, Rows, m))
    /\ (k % Cols # 0 => ~IsFilled(Sample(image, Cols, Rows, k - 1)))

\* the inner loop has passed one cell
CellPassed == pc = "loop" /\ cellIndex' = cellIndex + 1

\* str ends with word
EndsWith(str, word) ==
  Len(word) <= Len(str) /\ SubSeq(str, Len(str) - Len(word) + 1, Len(str)) = word

\* C15: an empty cell adds a space and nothing else.  A filled cell leaves
\* everything emitted before its run as it was (the spaces of the empty cells,
\* the line breaks, the previous rows); it either only adds its own character
\* or ends with a configured word no longer than the run so far.
C15_WordWithinRun ==
  [][CellPassed =>
       IF IsFilled(CurrentPixel)
       THEN LET run == cellIndex + 1 - RunStart(cellIndex)
                kept == Len(chars) - (run - 1)
            IN /\ Len(chars') > kept
               /\ SubSeq(chars', 1, kept) = SubSeq(chars, 1, kept)
               /\ \/ Len(chars') > Len(chars) /\ SubSeq(chars', 1, Len(chars)) = chars
                  \/ \E k \in DOMAIN Words : Len(Words[k]) <= run /\ EndsWith(chars', Words[k])
       ELSE chars' = Append(chars, " ")]_vars

\* a later frame: the one-cell run of the first row kept its character and the
\* two-cell run of the second row holds an injected word
C15_Witness ==
  /\ pc = "loop" /\ strippedText # Null
  /\ Cols = 2 /\ cellIndex = 4 /\ column = 0
  /\ chars[1] = " "
  /\ chars[2] \in Range(Letters)
  /\ SubSeq(chars, 4, 5) = <<"h", "i">>

\* the text the closure holds was composed for the canvas being composed now
SameGrid == renderText # Null /\ made = Some(<<Cols, Rows>>)

\* C16: a frame composed from no previous text, or from one composed for the
\* same canvas, has Rows * (Cols + 1) characters, with a line break after the
\* Cols characters of every row.
C16_FrameShape ==
  (/\ pc = "loop" /\ column = 0 /\ cellIndex = Cols * Rows
   /\ strippedText = Null \/ SameGrid)
    => /\ Len(chars) = Rows * (Cols + 1)
       /\ \A r \in 1..Rows : chars[r * (Cols + 1)] = "\n"

\* the frame being composed repeats the previous text so far
RepeatsPrevious ==
  /\ Len(chars) <= Len(renderText[1])
  /\ chars = SubSeq(renderText[1], 1, Len(chars))

\* C17: composing from a text made for the same canvas, as long as the frame
\* repeats the previous text, a cell whose replacement draws say no and the end
\* of a row keep it repeating, and the frame returned is the previous text.
C17_FrameFixpoint ==
  [][(pc = "loop" /\ SameGrid /\ RepeatsPrevious) =>
       /\ \A d \in Draws :
            (ComposeStep(d) /\ ~(d.replace < 10) /\ ~(d.again < 10)) => RepeatsPrevious'
       /\ ComposeRowEnd => RepeatsPrevious'
       /\ ComposeReturn => renderText' = renderText]_vars

\* an initElement call on e is still on its way
InProgress(e) == \E c \in BagToSet(calls) : c.el = e /\ c.stage \in {"svg", "img"}

\* C19: a surface that is not in the registry and has no activation in
\* progress has no forced height and no text.
C19_FailedActivationNoEffect ==
  \A e \in Elements :
    (e \notin DOMAIN instances /\ ~InProgress(e)) =>
      height[e] = Null /\ textContent[e] = Null

\* the stores that complete merges of accepted updates lead to from store S
RECURSIVE MergeClosure(_)
MergeClosure(S) ==
  LET T == S \cup {Merged(c, u) : c \in S, u \in SettingsUpdates}
      V == {m \in T : m \in S \/ ~FailsValidation(m)}
  IN IF V = S THEN S ELSE MergeClosure(V)

Snapshots == MergeClosure({DefaultConfig})

\* C18: whenever an activation reads the store (when initElement starts, when
\* its image loads) the store is the default settings with a number of accepted
\* updates merged whole; the store changes only in a configure step, by the
\* whole update, and the steps of an activation leave it as it is.
C18_SettingsSnapshot ==
  /\ [](config \in Snapshots)
  /\ [][/\ config' # config =>
             \E u \in SettingsUpdates :
               Configure(u) /\ ~FailsValidation(Merged(config, u)) /\ config' = Merged(config, u)
        /\ (calls' # calls) => config' = config]_vars

\* an update was merged and a later one rejected while an activation that
\* started under the default settings waits for its image, after another
\* one has completed
C18_Witness ==
  /\ cfgResult = "Invalid settings"
  /\ config.letters = <<"x">> /\ config.words = <<<<"w">>>>
  /\ \E c \in BagToSet(calls) : c.stage = "img"
  /\ "e1" \in DOMAIN instances

\* C20: composing the first frame with a palette that holds no space, a cell
\* holds a palette character exactly when its pixel has red < 120 and
\* alpha >= 50, whatever its green and blue, and a space otherwise.
C20_FilledByRedAndAlpha ==
  (pc = "loop" /\ strippedText = Null) =>
    \A n \in 0..(cellIndex - 1) :
      LET p == Sample(image, Cols, Rows, n)
      IN /\ (p.r < 120 /\ p.a >= 50) => CellChar(n) \in Range(Letters)
         /\ ~(p.r < 120 /\ p.a >= 50) => CellChar(n) = " "

\* the darkest red that is not filled was composed as a space, at full alpha
C20_Witness ==
  /\ pc = "loop" /\ cellIndex = Cols * Rows /\ column = 0
  /\ image[1][1] = Pixel(120, 0, 255, 255)
  /\ chars[1] = " "

====
